---- MODULE Spec2Model ----
(***************************************************************************)
(* Model of the blog pages of nextjs-page-router-sample:                   *)
(*   src/pages/index.tsx     the listing route (query, concurrent child-   *)
(*                           block fetches, mapping of entries to Posts)   *)
(*   src/unnamed/part_000    the detail route (getStaticProps and          *)
(*                           getStaticPaths of the [slug] page)            *)
(* The remote content API is the environment: a list of published entries  *)
(* in the order the query returns them, and the child blocks of each id.   *)
(***************************************************************************)
EXTENDS Integers, Sequences, FiniteSets, TLC

VARIABLES
    db,              \* remote: published entries, in the order the query returns them
    children,        \* remote: page id -> list of child blocks
    mpc, page, response, mapped,                       \* the mapping applied to one entry
    lpc, results, fetchState, blockResponses, posts,   \* listing route getStaticProps
    thrown,                                            \* listing route: the error the call fails with
    issued, queries, failures, completed,              \* listing route: history of remote calls
    dpc, params, post, ret, calls, attached, fetched,  \* detail route getStaticProps
    ppc, pathPosts, paths                              \* detail route getStaticPaths

remoteVars == <<db, children>>
mapVars    == <<mpc, page, response, mapped>>
listVars   == <<lpc, results, fetchState, blockResponses, posts, thrown,
               issued, queries, failures, completed>>
detailVars == <<dpc, params, post, ret, calls, attached, fetched>>
pathVars   == <<ppc, pathPosts, paths>>
vars       == <<remoteVars, mapVars, listVars, detailVars, pathVars>>

----------------------------------------------------------------------------
(* Bounds of the model *)

MaxRuns    == 2    \* rich-text runs of one property or block
MaxBlocks  == 2    \* child blocks of one page
MaxEntries == 2    \* published entries the query returns

(* JavaScript null; no text of the model equals it *)
NULL == "<null>"

SeqsUpTo(S, n) == UNION {[1..k -> S] : k \in 0..n}

(* rich-text arrays: each run keeps only what the code reads, plain_text *)
RichText(S, n) == {[i \in DOMAIN f |-> [plain_text |-> f[i]]] : f \in SeqsUpTo(S, n)}

Texts     == {"Hello", "World"}
PropTexts == {"", "Hello", "World"}
Times     == {"2023-01-01T00:00:00.000Z", "2023-02-02T00:00:00.000Z"}
PageIds   == {"p1", "p2", "p3"}
PropTypes == {"title", "rich_text"}
Languages == {"python", "typescript"}

(* a page property of the given type: the runs live under the field named
   like the type *)
Property(type, runs) ==
    IF type = "title" THEN [type |-> "title", title |-> runs]
                      ELSE [type |-> "rich_text", rich_text |-> runs]

PartialPage(id) == [object |-> "page", id |-> id]

FullPage(id, name, slug, created, edited) ==
    [object |-> "page", id |-> id,
     properties |-> [Name |-> name, Slug |-> slug],
     created_time |-> created, last_edited_time |-> edited]

RecognizedTypes == {"paragraph", "quote", "heading_2", "heading_3", "code"}

PartialBlock == [object |-> "block"]

(* a full block: the payload lives under the field named like the type *)
Block(type, payload) == (type :> payload) @@ [object |-> "block", type |-> type]

BlockRuns == RichText(Texts, MaxRuns)

Blocks ==
    {PartialBlock,
     Block("bulleted_list_item", [rich_text |-> <<[plain_text |-> "Hello"]>>])}
    \cup {Block(t, [rich_text |-> r]) : t \in RecognizedTypes \ {"code"}, r \in BlockRuns}
    \cup {Block("code", [rich_text |-> r, language |-> l]) : r \in BlockRuns, l \in Languages}

Response(blocks) == [results |-> blocks]

----------------------------------------------------------------------------
(* The mapping of entries to Posts: src/pages/index.tsx, lines 74-147 *)

(* x[0]?.plain_text ?? null *)
FirstPlainText(runs) == IF Len(runs) > 0 THEN runs[1].plain_text ELSE NULL

TitleOfKeepsLastRun(p) ==
    IF p.properties.Name.type = "title"
    THEN (IF Len(p.properties.Name.title) > 0
          THEN p.properties.Name.title[Len(p.properties.Name.title)].plain_text
          ELSE NULL)
    ELSE NULL

TitleOf(p) ==
    IF p.properties.Name.type = "title"
    THEN FirstPlainText(p.properties.Name.title)
    ELSE NULL

SlugOf(p) ==
    IF p.properties.Slug.type = "rich_text"
    THEN FirstPlainText(p.properties.Slug.rich_text)
    ELSE NULL

PushContentWithoutQuote(contents, block) ==
    IF "type" \notin DOMAIN block THEN contents
    ELSE CASE block.type = "paragraph" ->
                Append(contents, [type |-> "paragraph",
                                  text |-> FirstPlainText(block.paragraph.rich_text)])
           [] block.type = "heading_2" ->
                Append(contents, [type |-> "heading_2",
                                  text |-> FirstPlainText(block.heading_2.rich_text)])
           [] block.type = "heading_3" ->
                Append(contents, [type |-> "heading_3",
                                  text |-> FirstPlainText(block.heading_3.rich_text)])
           [] block.type = "code" ->
                Append(contents, [type |-> "code",
                                  text |-> FirstPlainText(block.code.rich_text),
                                  language |-> block.code.language])
           [] OTHER -> contents

(* the body of blocks.results.forEach: one block, pushed or skipped *)
PushContent(contents, block) ==
    IF "type" \notin DOMAIN block THEN contents
    ELSE CASE block.type = "paragraph" ->
                Append(contents, [type |-> "paragraph",
                                  text |-> FirstPlainText(block.paragraph.rich_text)])
           [] block.type = "heading_2" ->
                Append(contents, [type |-> "heading_2",
                                  text |-> FirstPlainText(block.heading_2.rich_text)])
           [] block.type = "heading_3" ->
                Append(contents, [type |-> "heading_3",
                                  text |-> FirstPlainText(block.heading_3.rich_text)])
           [] block.type = "quote" ->
                Append(contents, [type |-> "quote",
                                  text |-> FirstPlainText(block.quote.rich_text)])
           [] block.type = "code" ->
                Append(contents, [type |-> "code",
                                  text |-> FirstPlainText(block.code.rich_text),
                                  language |-> block.code.language])
           [] OTHER -> contents

RECURSIVE MapBlocksFrom(_, _, _)
MapBlocksFrom(blocks, i, contents) ==
    IF i > Len(blocks) THEN contents
    ELSE MapBlocksFrom(blocks, i + 1, PushContent(contents, blocks[i]))

(* const contents = []; blocks.results.forEach(...) *)
MapBlocks(blocks) == MapBlocksFrom(blocks, 1, <<>>)

PushPostWithFetchedContents(acc, p, index, responses) ==
    IF "properties" \notin DOMAIN p
    THEN Append(acc, [id |-> p.id, title |-> NULL, slug |-> NULL,
                      createdTs |-> NULL, lastEditedTs |-> NULL,
                      contents |-> MapBlocks(responses[index].results)])
    ELSE Append(acc, [id |-> p.id, title |-> TitleOf(p), slug |-> SlugOf(p),
                      createdTs |-> p.created_time,
                      lastEditedTs |-> p.last_edited_time,
                      contents |-> MapBlocks(responses[index].results)])

(* the body of database.results.forEach: one entry, pushed as a Post *)
PushPost(acc, p, index, responses) ==
    IF "properties" \notin DOMAIN p
    THEN Append(acc, [id |-> p.id, title |-> NULL, slug |-> NULL,
                      createdTs |-> NULL, lastEditedTs |-> NULL,
                      contents |-> <<>>])
    ELSE Append(acc, [id |-> p.id, title |-> TitleOf(p), slug |-> SlugOf(p),
                      createdTs |-> p.created_time,
                      lastEditedTs |-> p.last_edited_time,
                      contents |-> MapBlocks(responses[index].results)])

RECURSIVE BuildPostsFrom(_, _, _, _)
BuildPostsFrom(pages, responses, i, acc) ==
    IF i > Len(pages) THEN acc
    ELSE BuildPostsFrom(pages, responses, i + 1, PushPost(acc, pages[i], i, responses))

(* const posts = []; database.results.forEach((page, index) => ...) *)
BuildPosts(pages, responses) == BuildPostsFrom(pages, responses, 1, <<>>)

----------------------------------------------------------------------------
(* Values of the variables of a route that is not running *)

IdleRemote == db = <<>> /\ children = [id \in PageIds |-> <<>>]

IdleMap ==
    /\ mpc = "idle" /\ page = PartialPage("p1")
    /\ response = Response(<<>>) /\ mapped = <<>>

IdleList ==
    /\ lpc = "idle" /\ results = <<>> /\ fetchState = <<>>
    /\ blockResponses = <<>> /\ posts = <<>> /\ thrown = "none"
    /\ issued = <<>> /\ queries = 0 /\ failures = <<>> /\ completed = <<>>

IdleDetail ==
    /\ dpc = "idle" /\ params = [present |-> FALSE]
    /\ post = <<>> /\ ret = <<>>
    /\ calls = <<>> /\ attached = <<>> /\ fetched = <<>>

IdlePaths == ppc = "idle" /\ pathPosts = <<>> /\ paths = <<>>

----------------------------------------------------------------------------
(* The mapping on one entry: database.results = [page],                    *)
(* blockResponses = [response].  Inputs are drawn in Init.  Every full     *)
(* page carries the "Name" and "Slug" properties of the database schema;   *)
(* their types and runs vary.                                              *)

RawPages ==
    {PartialPage(id) : id \in PageIds}
    \cup {FullPage(id, Property(nt, nr), Property(st, sr), c, e) :
            id \in PageIds, nt \in PropTypes, nr \in RichText(PropTexts, MaxRuns),
            st \in PropTypes, sr \in RichText(PropTexts, MaxRuns),
            c \in Times, e \in Times}

SamplePages ==
    {FullPage("p2", Property("title", <<[plain_text |-> "Hello"]>>),
              Property("rich_text", <<[plain_text |-> "a"]>>),
              "2023-01-01T00:00:00.000Z", "2023-02-02T00:00:00.000Z")}

SampleBlocks ==
    {Block("paragraph", [rich_text |-> <<[plain_text |-> "Hello"]>>]),
     Block("bulleted_list_item", [rich_text |-> <<[plain_text |-> "World"]>>])}

PageInit ==
    /\ page \in RawPages
    /\ response \in {Response(bs) : bs \in SeqsUpTo(SampleBlocks, 1)}
    /\ mpc = "input" /\ mapped = <<>>
    /\ IdleRemote /\ IdleList /\ IdleDetail /\ IdlePaths

BlocksInit ==
    /\ page \in SamplePages
    /\ response \in {Response(bs) : bs \in SeqsUpTo(Blocks, MaxBlocks)}
    /\ mpc = "input" /\ mapped = <<>>
    /\ IdleRemote /\ IdleList /\ IdleDetail /\ IdlePaths

ApplyMapping ==
    /\ mpc = "input"
    /\ mapped' = BuildPosts(<<page>>, <<response>>)
    /\ mpc' = "mapped"
    /\ UNCHANGED <<page, response, remoteVars, listVars, detailVars, pathVars>>

MapNext == ApplyMapping

SpecPage   == PageInit /\ [][MapNext]_vars
SpecBlocks == BlocksInit /\ [][MapNext]_vars

IsFull(p) == "properties" \in DOMAIN p

(* C2: an entry without the `properties` key maps to a Post that keeps the
   entry's id, has title, slug, createdTs and lastEditedTs null and empty
   contents, whatever blocks were fetched for it *)
C2_PartialEntry ==
    (mpc = "mapped" /\ ~IsFull(page)) =>
        mapped = <<[id |-> page.id, title |-> NULL, slug |-> NULL,
                    createdTs |-> NULL, lastEditedTs |-> NULL, contents |-> <<>>]>>

C2_Witness ==
    /\ mpc = "mapped" /\ ~IsFull(page)
    /\ \E i \in DOMAIN response.results :
          /\ "type" \in DOMAIN response.results[i]
          /\ response.results[i].type = "paragraph"
    /\ mapped[1].id = page.id /\ mapped[1].contents = <<>>

FirstRunOrNull(prop, type) ==
    IF prop.type = type /\ prop[type] # <<>> THEN Head(prop[type]).plain_text ELSE NULL

(* C4: for a full entry, title is the plain text of the first run of the
   "Name" property when its type is "title" and it has a run, else null;
   slug likewise from the "Slug" property of type "rich_text"; later runs
   never matter *)
C4_TitleAndSlug ==
    (mpc = "mapped" /\ IsFull(page)) =>
        /\ mapped[1].title = FirstRunOrNull(page.properties.Name, "title")
        /\ mapped[1].slug = FirstRunOrNull(page.properties.Slug, "rich_text")

C4_Witness ==
    /\ mpc = "mapped" /\ IsFull(page)
    /\ page.properties.Name = Property("title", <<[plain_text |-> "Hello"], [plain_text |-> "World"]>>)
    /\ page.properties.Slug = Property("rich_text", <<[plain_text |-> "World"], [plain_text |-> ""]>>)
    /\ mapped[1].title = "Hello" /\ mapped[1].slug = "World"

IsRecognized(b) == "type" \in DOMAIN b /\ b.type \in RecognizedTypes

ExpectedContent(b) ==
    IF b.type = "code"
    THEN [type |-> "code",
          text |-> IF b.code.rich_text = <<>> THEN NULL ELSE Head(b.code.rich_text).plain_text,
          language |-> b.code.language]
    ELSE [type |-> b.type,
          text |-> IF b[b.type].rich_text = <<>> THEN NULL
                   ELSE Head(b[b.type].rich_text).plain_text]

(* C3: for a full entry, contents is the subsequence of the fetched block
   list made of the blocks of type paragraph, quote, heading_2, heading_3
   or code, in the remote order, each mapped to its Content; other blocks
   and blocks without a type tag give no element *)
C3_RecognizedSubsequence ==
    (mpc = "mapped" /\ IsFull(page)) =>
        LET rec == SelectSeq(response.results, IsRecognized) IN
        /\ Len(mapped) = 1
        /\ Len(mapped[1].contents) = Len(rec)
        /\ \A i \in DOMAIN rec : mapped[1].contents[i] = ExpectedContent(rec[i])

C3_Witness ==
    /\ mpc = "mapped" /\ IsFull(page)
    /\ Len(response.results) = 2
    /\ ~IsRecognized(response.results[1])
    /\ IsRecognized(response.results[2]) /\ response.results[2].type = "quote"
    /\ Len(mapped[1].contents) = 1 /\ mapped[1].contents[1].type = "quote"

----------------------------------------------------------------------------
(* The remote database.  An entry is what the remote holds; the query
   returns it as a full page object or, without its properties, as a partial
   one.  The schema of the configured database is fixed: "Name" is its title
   property, "Slug" a rich_text property. *)

RawPage(e) ==
    IF e.partial THEN PartialPage(e.id)
    ELSE FullPage(e.id, Property("title", e.name), Property("rich_text", e.slug),
                  e.created, e.edited)

NameRuns == <<[plain_text |-> "Hello"], [plain_text |-> "World"]>>

Entries(slugs, times) ==
    [id : PageIds, partial : BOOLEAN, name : {NameRuns}, slug : slugs,
     created : times, edited : {"2023-02-02T00:00:00.000Z"}]

TimeRank(t) == IF t = "2023-01-01T00:00:00.000Z" THEN 1 ELSE 2

(* the query sorts by created_time, descending; ids are unique *)
Databases(slugs, times) ==
    {d \in SeqsUpTo(Entries(slugs, times), MaxEntries) :
        \A i, j \in DOMAIN d :
            i < j => /\ d[i].id # d[j].id
                     /\ TimeRank(d[i].created) >= TimeRank(d[j].created)}

IdsOf(d) == {d[i].id : i \in DOMAIN d}

ChildLists ==
    {<<>>,
     <<Block("paragraph", [rich_text |-> <<[plain_text |-> "Hello"]>>])>>,
     <<Block("bulleted_list_item", [rich_text |-> <<[plain_text |-> "Hello"]>>]),
       Block("code", [rich_text |-> <<[plain_text |-> "World"]>>, language |-> "python"])>>}

(* child blocks of the pages of d; a page outside d has none *)
ChildrenOf(d) ==
    {c \in [PageIds -> ChildLists] : \A id \in PageIds \ IdsOf(d) : c[id] = <<>>}

----------------------------------------------------------------------------
(* Listing route: getStaticProps of src/pages/index.tsx, lines 36-153 *)

ListInit ==
    /\ db \in Databases({<<[plain_text |-> "a"]>>}, {"2023-01-01T00:00:00.000Z"})
    /\ children \in ChildrenOf(db)
    /\ lpc = "start" /\ results = <<>> /\ fetchState = <<>>
    /\ blockResponses = <<>> /\ posts = <<>> /\ thrown = "none"
    /\ issued = <<>> /\ queries = 0 /\ failures = <<>> /\ completed = <<>>
    /\ IdleMap /\ IdleDetail /\ IdlePaths

(* database.results.map((page) => notion.blocks.children.list({block_id: page.id})) *)
IssueFetches(pages) == [i \in DOMAIN pages |-> pages[i].id]

AnyResolved(states) == \E i \in DOMAIN states : states[i] = "ok"

(* Promise.all resolves when every promise of the batch has resolved *)
AllResolved(states) == \A i \in DOMAIN states : states[i] = "ok"

AfterRejectionIgnored(pc) == pc

(* Promise.all rejects with the first rejection; the await throws and the
   call fails *)
AfterRejection(pc) == IF pc = "awaiting" THEN "failed" ELSE pc

StoreInCompletionOrder(responses, states, i, r) ==
    [responses EXCEPT ![Cardinality({j \in DOMAIN states : states[j] = "ok"}) + 1] = r]

(* Promise.all keeps each result at the index of its promise *)
StoreResponse(responses, states, i, r) == [responses EXCEPT ![i] = r]

(* await notion.databases.query(...) is issued *)
ListQuery ==
    /\ lpc = "start"
    /\ lpc' = "querying"
    /\ queries' = queries + 1
    /\ UNCHANGED <<results, fetchState, blockResponses, posts, thrown,
                   issued, failures, completed>>
    /\ UNCHANGED <<remoteVars, mapVars, detailVars, pathVars>>

(* the query fails: the error propagates, nothing else runs *)
ListQueryFails ==
    /\ lpc = "querying"
    /\ lpc' = "failed"
    /\ thrown' = "query"
    /\ failures' = Append(failures, "query")
    /\ UNCHANGED <<results, fetchState, blockResponses, posts, issued, queries, completed>>
    /\ UNCHANGED <<remoteVars, mapVars, detailVars, pathVars>>

(* the query returns: every child-block fetch is issued at once; with no
   entry the batch resolves at once and the empty list is mapped *)
ListQueryReturns ==
    /\ lpc = "querying"
    /\ results' = [i \in DOMAIN db |-> RawPage(db[i])]
    /\ issued' = issued \o IssueFetches(results')
    /\ fetchState' = [i \in DOMAIN issued' |-> "inflight"]
    /\ blockResponses' = [i \in DOMAIN issued' |-> Response(<<>>)]
    /\ IF AllResolved(fetchState')
       THEN /\ posts' = BuildPosts(results', blockResponses')
            /\ lpc' = "done"
       ELSE /\ posts' = posts
            /\ lpc' = "awaiting"
    /\ UNCHANGED <<thrown, queries, failures, completed>>
    /\ UNCHANGED <<remoteVars, mapVars, detailVars, pathVars>>

(* one child-block fetch returns; when it is the last of the batch the
   entries are mapped and the props returned *)
ListFetchReturns(i) ==
    /\ lpc \in {"awaiting", "failed", "done"}
    /\ i \in DOMAIN fetchState /\ fetchState[i] = "inflight"
    /\ blockResponses' = StoreResponse(blockResponses, fetchState, i,
                                       Response(children[issued[i]]))
    /\ fetchState' = [fetchState EXCEPT ![i] = "ok"]
    /\ completed' = Append(completed, i)
    /\ IF lpc = "awaiting" /\ AllResolved(fetchState')
       THEN /\ posts' = BuildPosts(results, blockResponses')
            /\ lpc' = "done"
       ELSE UNCHANGED <<posts, lpc>>
    /\ UNCHANGED <<results, thrown, issued, queries, failures>>
    /\ UNCHANGED <<remoteVars, mapVars, detailVars, pathVars>>

(* one child-block fetch fails *)
ListFetchFails(i) ==
    /\ lpc \in {"awaiting", "failed", "done"}
    /\ i \in DOMAIN fetchState /\ fetchState[i] = "inflight"
    /\ fetchState' = [fetchState EXCEPT ![i] = "failed"]
    /\ failures' = Append(failures, issued[i])
    /\ lpc' = AfterRejection(lpc)
    /\ thrown' = IF lpc' = "failed" /\ lpc # "failed" THEN issued[i] ELSE thrown
    /\ UNCHANGED <<results, blockResponses, posts, issued, queries, completed>>
    /\ UNCHANGED <<remoteVars, mapVars, detailVars, pathVars>>

ListNext ==
    \/ ListQuery
    \/ ListQueryFails
    \/ ListQueryReturns
    \/ \E i \in 1..MaxEntries : ListFetchReturns(i)
    \/ \E i \in 1..MaxEntries : ListFetchFails(i)

SpecList == ListInit /\ [][ListNext]_vars

ExpectedContents(blocks) ==
    LET rec == SelectSeq(blocks, IsRecognized)
    IN  [k \in DOMAIN rec |-> ExpectedContent(rec[k])]

(* C7: once the query or any child-block fetch has failed, the call has
   failed with the first such error and returns no props: no Post exists,
   also for entries whose own fetch succeeded, and nothing was retried *)
C7_FailurePropagates ==
    /\ failures # <<>> =>
          /\ lpc = "failed"
          /\ thrown = failures[1]
          /\ posts = <<>>
    /\ lpc = "done" => failures = <<>>
    /\ queries <= 1
    /\ Len(issued) <= Len(db)

C7_Witness ==
    /\ lpc = "failed" /\ posts = <<>>
    /\ \E i, j \in DOMAIN fetchState :
          /\ fetchState[i] = "failed" /\ fetchState[j] = "ok"
          /\ thrown = issued[i]

(* C8: no child-block fetch is issued before the entry-list query has
   returned; exactly one is issued per returned entry, for that entry's id
   (none for zero entries, and then the result is the empty post list); and
   posts are mapped only after every fetch of the batch has returned *)
C8_CallOrder ==
    /\ lpc \in {"start", "querying"} => issued = <<>>
    /\ Len(issued) = Len(results)
    /\ lpc \in {"awaiting", "done"} =>
          /\ Len(results) = Len(db)
          /\ issued = [i \in DOMAIN results |-> results[i].id]
    /\ lpc = "done" => \A i \in DOMAIN fetchState : fetchState[i] = "ok"
    /\ posts # <<>> => lpc = "done"
    /\ (lpc = "done" /\ db = <<>>) => (issued = <<>> /\ posts = <<>>)

C8_Witness ==
    /\ lpc = "done" /\ Len(results) = 2 /\ Len(issued) = 2
    /\ ~IsFull(results[1]) /\ IsFull(results[2])
    /\ Len(posts) = 2

(* C10: whatever the order in which the concurrent fetches return, the
   returned list has the length and order of the entry list, the i-th post
   has the id of the i-th entry and its contents come from the blocks of
   that entry's id, never from another entry's *)
C10_OrderIndependent ==
    lpc = "done" =>
        /\ Len(posts) = Len(db)
        /\ \A i \in DOMAIN posts :
              /\ posts[i].id = db[i].id
              /\ posts[i].contents =
                    IF db[i].partial THEN <<>>
                    ELSE ExpectedContents(children[db[i].id])

C10_Witness ==
    /\ lpc = "done" /\ Len(posts) = 2
    /\ completed = <<2, 1>>
    /\ ~db[1].partial /\ ~db[2].partial
    /\ posts[1].contents # posts[2].contents
    /\ posts[1].contents # <<>> /\ posts[2].contents # <<>>

----------------------------------------------------------------------------
(* getPosts and getPostContents of the listing module, as the detail route
   imports them: the published entries, narrowed to one Slug when a slug is
   given, in the order of the query, each mapped to a Post with its content
   attached; and the content of one post, fetched again by its id. *)

RECURSIVE SlugText(_)
SlugText(runs) ==
    IF runs = <<>> THEN "" ELSE Head(runs).plain_text \o SlugText(Tail(runs))

(* the remote's equality filter on the text of the "Slug" property *)
SlugFilter(d, slug) == SelectSeq(d, LAMBDA e : SlugText(e.slug) = slug)

GetPosts(d, ch, filter) ==
    LET m == IF filter.present THEN SlugFilter(d, filter.slug) ELSE d
    IN  BuildPosts([i \in DOMAIN m |-> RawPage(m[i])],
                   [i \in DOMAIN m |-> Response(ch[m[i].id])])

GetPostContents(ch, p) == MapBlocks(ch[p.id])

SlugRunLists ==
    {<<>>, <<[plain_text |-> ""]>>, <<[plain_text |-> "a"]>>,
     <<[plain_text |-> "b"]>>,
     <<[plain_text |-> "a"], [plain_text |-> "a"]>>}

ParamSlugs == {"a", "aa"}

InitialChildren ==
    [id \in PageIds |->
        <<Block("paragraph", [rich_text |-> <<[plain_text |-> "Hello"]>>])>>]

(* what an author may change the blocks of a page to *)
EditedLists ==
    {<<Block("heading_2", [rich_text |-> <<[plain_text |-> "World"]>>]),
       Block("bulleted_list_item", [rich_text |-> <<[plain_text |-> "Hello"]>>])>>}

----------------------------------------------------------------------------
(* Detail route: getStaticProps of src/unnamed/part_000, lines 16-44 *)

DetailInit ==
    /\ db \in Databases(SlugRunLists, {"2023-01-01T00:00:00.000Z"})
    /\ children = InitialChildren
    /\ params \in {[present |-> FALSE]} \cup {[present |-> TRUE, slug |-> sl] : sl \in ParamSlugs}
    /\ dpc = "start" /\ post = <<>> /\ ret = <<>>
    /\ calls = <<>> /\ attached = <<>> /\ fetched = <<>>
    /\ IdleMap /\ IdleList /\ IdlePaths

NotFoundPropsToHome == [props |-> <<>>, redirect |-> [destination |-> "/"]]

(* const notFoundProps = { props: {}, redirect: { destination: '/404' } } *)
NotFoundProps == [props |-> <<>>, redirect |-> [destination |-> "/404"]]

Pop(ps) == IF ps = <<>> THEN <<>> ELSE <<ps[Len(ps)]>>

(* posts.shift(): the first post, or undefined (the empty sequence here) *)
Shift(ps) == IF ps = <<>> THEN <<>> ELSE <<Head(ps)>>

KeepContents(p, contents) == p

(* post.contents = contents *)
AssignContents(p, contents) == [p EXCEPT !.contents = contents]

(* if (!params) return notFoundProps *)
DetailNoParams ==
    /\ dpc = "start" /\ ~params.present
    /\ ret' = NotFoundProps
    /\ dpc' = "done"
    /\ UNCHANGED <<params, post, calls, attached, fetched>>
    /\ UNCHANGED <<remoteVars, mapVars, listVars, pathVars>>

(* await getPosts(slug) is issued *)
DetailCallGetPosts ==
    /\ dpc = "start" /\ params.present
    /\ calls' = Append(calls, [fn |-> "getPosts", arg |-> params.slug])
    /\ dpc' = "getPosts"
    /\ UNCHANGED <<params, post, ret, attached, fetched>>
    /\ UNCHANGED <<remoteVars, mapVars, listVars, pathVars>>

(* a remote call of getPosts fails: the error propagates *)
DetailGetPostsFails ==
    /\ dpc = "getPosts"
    /\ dpc' = "failed"
    /\ UNCHANGED <<params, post, ret, calls, attached, fetched>>
    /\ UNCHANGED <<remoteVars, mapVars, listVars, pathVars>>

(* getPosts returns: no post redirects, else the content fetch is issued
   for the first post *)
DetailGetPostsReturns ==
    /\ dpc = "getPosts"
    /\ attached' = GetPosts(db, children, params)
    /\ post' = Shift(attached')
    /\ IF post' = <<>>
       THEN /\ ret' = NotFoundProps
            /\ dpc' = "done"
            /\ calls' = calls
       ELSE /\ ret' = ret
            /\ dpc' = "getContents"
            /\ calls' = Append(calls, [fn |-> "getPostContents", arg |-> post'[1].id])
    /\ UNCHANGED <<params, fetched>>
    /\ UNCHANGED <<remoteVars, mapVars, listVars, pathVars>>

(* the remote call of getPostContents fails: the error propagates *)
DetailContentsFails ==
    /\ dpc = "getContents"
    /\ dpc' = "failed"
    /\ UNCHANGED <<params, post, ret, calls, attached, fetched>>
    /\ UNCHANGED <<remoteVars, mapVars, listVars, pathVars>>

(* getPostContents returns: the content is attached and the post returned *)
DetailContentsReturns ==
    /\ dpc = "getContents"
    /\ fetched' = GetPostContents(children, post[1])
    /\ post' = <<AssignContents(post[1], fetched')>>
    /\ ret' = [props |-> [post |-> post'[1]]]
    /\ dpc' = "done"
    /\ UNCHANGED <<params, calls, attached>>
    /\ UNCHANGED <<remoteVars, mapVars, listVars, pathVars>>

(* the environment: an author edits the blocks of a published page while
   the route is being generated *)
RemoteEdit(id, blocks) ==
    /\ dpc \in {"getPosts", "getContents"}
    /\ id \in IdsOf(db)
    /\ children[id] # blocks
    /\ children' = [children EXCEPT ![id] = blocks]
    /\ UNCHANGED <<db, detailVars, mapVars, listVars, pathVars>>

DetailNext ==
    \/ DetailNoParams
    \/ DetailCallGetPosts
    \/ DetailGetPostsFails
    \/ DetailGetPostsReturns
    \/ DetailContentsFails
    \/ DetailContentsReturns
    \/ \E id \in PageIds, blocks \in EditedLists : RemoteEdit(id, blocks)

SpecDetail == DetailInit /\ [][DetailNext]_vars

----------------------------------------------------------------------------
(* Detail route: getStaticPaths of src/unnamed/part_000, lines 46-62 *)

PathsInit ==
    /\ db \in Databases(SlugRunLists, Times)
    /\ children = InitialChildren
    /\ ppc = "start" /\ pathPosts = <<>> /\ paths = <<>>
    /\ IdleMap /\ IdleList /\ IdleDetail

(* if (slug): null and the empty string are falsy *)
Truthy(slug) == slug # NULL /\ slug # ""

PushPathNewestLast(acc, p) ==
    IF Truthy(p.slug) THEN <<[params |-> [slug |-> p.slug]]>> \o acc ELSE acc

(* the body of posts.forEach: one path pushed for a post with a slug *)
PushPath(acc, p) ==
    IF Truthy(p.slug) THEN Append(acc, [params |-> [slug |-> p.slug]]) ELSE acc

RECURSIVE PathsFrom(_, _, _)
PathsFrom(ps, i, acc) ==
    IF i > Len(ps) THEN acc ELSE PathsFrom(ps, i + 1, PushPath(acc, ps[i]))

(* const paths = []; posts.forEach(...) *)
PathsOf(ps) == PathsFrom(ps, 1, <<>>)

(* await getPosts() is issued *)
PathsCallGetPosts ==
    /\ ppc = "start"
    /\ ppc' = "getPosts"
    /\ UNCHANGED <<pathPosts, paths>>
    /\ UNCHANGED <<remoteVars, mapVars, listVars, detailVars>>

(* a remote call of getPosts fails: the error propagates *)
PathsGetPostsFails ==
    /\ ppc = "getPosts"
    /\ ppc' = "failed"
    /\ UNCHANGED <<pathPosts, paths>>
    /\ UNCHANGED <<remoteVars, mapVars, listVars, detailVars>>

(* getPosts returns: return { paths, fallback: 'blocking' } *)
PathsGetPostsReturns ==
    /\ ppc = "getPosts"
    /\ pathPosts' = GetPosts(db, children, [present |-> FALSE])
    /\ paths' = PathsOf(pathPosts')
    /\ ppc' = "done"
    /\ UNCHANGED <<remoteVars, mapVars, listVars, detailVars>>

PathsNext ==
    \/ PathsCallGetPosts
    \/ PathsGetPostsFails
    \/ PathsGetPostsReturns

SpecPaths == PathsInit /\ [][PathsNext]_vars

----------------------------------------------------------------------------
(* Claims on the detail route *)

SlugsOfPaths == [i \in DOMAIN paths |-> paths[i].params.slug]

HasSlug(p) == p.slug # NULL

HasUsableSlug(p) == p.slug # NULL /\ p.slug # ""

(* C1, as claimed: the generated paths are the slugs of the posts whose
   slug is non-null, one per post, in the order of the posts *)
C1_Original ==
    ppc = "done" =>
        LET with == SelectSeq(pathPosts, HasSlug) IN
        /\ Len(paths) = Len(with)
        /\ \A i \in DOMAIN with : paths[i].params.slug = with[i].slug

(* C1, amended: the generated paths are the slugs of the posts whose slug
   is neither null nor the empty string, one per post, in the order of the
   posts *)
C1_PathsPerUsableSlug ==
    ppc = "done" =>
        LET with == SelectSeq(pathPosts, HasUsableSlug) IN
        /\ Len(paths) = Len(with)
        /\ \A i \in DOMAIN with : paths[i] = [params |-> [slug |-> with[i].slug]]

C1_Witness ==
    /\ ppc = "done" /\ Len(pathPosts) = 2
    /\ pathPosts[1].slug = NULL /\ pathPosts[2].slug = "a"
    /\ SlugsOfPaths = <<"a">>

IsRedirect(r) == "redirect" \in DOMAIN r

(* C5: when no remote call fails, the route returns the redirect to '/404'
   exactly when the params are missing or getPosts(slug) returned no post;
   with missing params no remote call is issued, with no post the content
   fetch is not issued; otherwise it returns props with a post and no
   redirect *)
C5_NotFoundRedirect ==
    dpc = "done" =>
        /\ IsRedirect(ret) <=> (~params.present \/ attached = <<>>)
        /\ IsRedirect(ret) => ret.redirect.destination = "/404"
        /\ ~params.present => calls = <<>>
        /\ (params.present /\ attached = <<>>) =>
              calls = <<[fn |-> "getPosts", arg |-> params.slug]>>
        /\ ~IsRedirect(ret) =>
              /\ DOMAIN ret = {"props"}
              /\ "post" \in DOMAIN ret.props

C5_Witness ==
    /\ dpc = "done" /\ params.present /\ db # <<>> /\ attached = <<>>
    /\ IsRedirect(ret) /\ Len(calls) = 1

MatchingEntries == {i \in DOMAIN db : SlugText(db[i].slug) = params.slug}

FirstMatch == CHOOSE i \in MatchingEntries : \A j \in MatchingEntries : i <= j

(* C6, as claimed: the post taken first from getPosts(s) is that of the
   entry whose "Slug" first run equals s, so the post served for s has
   slug = s *)
C6_Original ==
    (dpc = "done" /\ ~IsRedirect(ret)) =>
        /\ ret.props.post.slug = params.slug
        /\ \E i \in DOMAIN db :
              /\ db[i].id = ret.props.post.id
              /\ db[i].slug # <<>>
              /\ Head(db[i].slug).plain_text = params.slug

(* C6, amended: the post taken first from getPosts(s) is that of the first
   entry, in query order, whose "Slug" text equals s, and there is none
   (the route redirects) when no published entry has that Slug; the slug of
   the post served is the first run of that Slug when the entry came as a
   full page, which is s when the Slug is a single run, and null when the
   entry came as a partial page *)
C6_FirstMatchServed ==
    /\ (dpc = "done" /\ params.present /\ MatchingEntries = {}) =>
          (attached = <<>> /\ post = <<>> /\ IsRedirect(ret))
    /\ (dpc = "done" /\ params.present /\ MatchingEntries # {}) =>
          LET e == db[FirstMatch] IN
          /\ ~IsRedirect(ret)
          /\ ret.props.post.id = e.id
          /\ ret.props.post.slug =
                IF e.partial THEN NULL ELSE Head(e.slug).plain_text
          /\ (~e.partial /\ Len(e.slug) = 1) => ret.props.post.slug = params.slug

C6_Witness ==
    /\ dpc = "done" /\ params.present /\ Cardinality(MatchingEntries) = 2
    /\ ~db[1].partial /\ Len(db[1].slug) = 1
    /\ ret.props.post.id = db[1].id
    /\ ret.props.post.slug = params.slug

(* C9: when a post matches, the contents returned are the result of the
   content fetch issued after getPosts returned, in place of the contents
   getPosts attached; every other field is as getPosts returned it; the
   content fetch is issued once, for the first post *)
C9_ContentsReplaced ==
    (dpc = "done" /\ attached # <<>>) =>
        /\ ret.props.post.contents = fetched
        /\ ret.props.post = [attached[1] EXCEPT !.contents = fetched]
        /\ calls = <<[fn |-> "getPosts", arg |-> params.slug],
                     [fn |-> "getPostContents", arg |-> attached[1].id]>>

C9_Witness ==
    /\ dpc = "done" /\ Len(attached) = 2
    /\ attached[1].contents # fetched
    /\ ret.props.post.contents = fetched
    /\ ret.props.post.id = attached[1].id /\ ret.props.post.slug = attached[1].slug

====
